---- MODULE Spec2Model ----
(***************************************************************************)
(* QuantoBasta: a libretro front end.  The model covers the audio buffer   *)
(* pool (audio.rs), the video frame hand-off, pixel conversion and VRR     *)
(* detection (video.rs) and the redraw tick and audio thread (main.rs).    *)
(*                                                                         *)
(* Byte and sample sequences are 1-based here; a 0-based index i of the    *)
(* source is element i + 1.                                                *)
(***************************************************************************)
EXTENDS Integers, Sequences, FiniteSets, TLC

VARIABLES
    pc,                   \* position of the main thread in the redraw tick
    panic,                \* why the main thread panicked ("none" if it did not)
    pixel_format,         \* current_state.pixel_format.0
    bytes_per_pixel,      \* current_state.bytes_per_pixel
    PIXEL_FORMAT_CHANNEL, \* formats sent and not yet received
    VIDEO_DATA_CHANNEL,   \* VideoData sent and not yet received
    frame,                \* pixels.frame_mut(): the presentation buffer
    lastDraw,             \* what the most recent draw step took and presented
    published,            \* number of VideoData values sent so far
    received,             \* number of VideoData values taken from the channel so far
    BUFFER_POOL,          \* the Vec of pooled buffers (by identity)
    bufData,              \* contents of every allocated VecDeque<i16>
    sub,                  \* locals of the running / last audio batch callback
    submitted,            \* all samples passed to completed batch callbacks
    AUDIO_DATA_CHANNEL,   \* AudioBuffers sent and not yet received
    audioSent,            \* number of AudioBuffers sent so far
    apc,                  \* position of the audio thread
    played,               \* buffers handed to play_audio, in order
    locks,                \* holder of every mutex
    call,                 \* argument and result of a pure function under test
    tickLog               \* what the last ticks begun did: "real" for a retro_run

vars == << pc, panic, pixel_format, bytes_per_pixel, PIXEL_FORMAT_CHANNEL,
           VIDEO_DATA_CHANNEL, frame, lastDraw, published, received, BUFFER_POOL,
           bufData, sub, submitted, AUDIO_DATA_CHANNEL, audioSent, apc, played, locks, call,
           tickLog >>

formatVars == << pixel_format, bytes_per_pixel, PIXEL_FORMAT_CHANNEL >>
videoVars == << VIDEO_DATA_CHANNEL, frame, lastDraw, published, received >>
poolVars == << BUFFER_POOL, bufData, sub, submitted >>
audioVars == << AUDIO_DATA_CHANNEL, audioSent, apc, played >>

(***************************************************************************)
(* Program constants.                                                      *)
(***************************************************************************)
AUDIO_CHANNELS == 2
FINAL_SAMPLE_RATE == 48000
BUFFER_DURATION_MS == 64
BUFFER_LENGTH == (FINAL_SAMPLE_RATE * BUFFER_DURATION_MS) \div 1000
POOL_SIZE == 20

(***************************************************************************)
(* Bounds of the model.                                                    *)
(***************************************************************************)
\* VecDeque capacity of a pooled buffer, in stereo frames (BUFFER_LENGTH scaled down).
CapFrames == 2
\* Largest frame count of one audio batch.
MaxBatchFrames == 3
\* Samples passed to the batch callback over a run.
MaxSamples == 10
\* Display size in pixels (video_width, video_height scaled down).
video_width == 2
video_height == 2
\* VideoData values sent over a run, and the most held by the channel.
MaxPublished == 2
\* Pixel formats held by the channel.
MaxFormats == 2
\* AudioBuffers sent over a run.
MaxAudioSent == 2
\* Ticks remembered by tickLog.
TickWindow == 2

\* Variant: a deque whose capacity is one more than asked for.
CapacityPlusOne == CapFrames * AUDIO_CHANNELS + 1

\* buffer.capacity() of VecDeque::with_capacity(BUFFER_LENGTH): exactly the
\* capacity asked for (BUFFER_LENGTH samples, an even number, scaled down).
Capacity == CapFrames * AUDIO_CHANNELS

Range(s) == { s[i] : i \in 1..Len(s) }

\* Variant: a one-slot hand-off, the message replacing what is held.
SendLatest(queue, msg) == << msg >>

\* std::sync::mpsc: send appends to the channel, the receiver takes from the front.
Send(queue, msg) == Append(queue, msg)

\* The process is running: no panic of the main thread, event loop not left.
Alive == pc \notin { "exit", "panic" }

(***************************************************************************)
(* Pixel conversion (video.rs, render_frame).                              *)
(***************************************************************************)
PixelFormats == { "RGB565", "ARGB1555", "ARGB8888" }

\* Entries of the two lookup tables.
RGB565_TABLE_LEN == 65536
ARGB1555_TABLE_LEN == 32768

\* x >> n and x & (2^n - 1) on non-negative integers.
Shr(x, n) == x \div (2 ^ n)
LowBits(x, n) == x % (2 ^ n)

\* Variant: the rounding offset left out.
Scale5Truncated(c) == Shr(c * 527, 6)

\* ((c * 527 + 23) >> 6): a 5-bit channel widened to 8 bits.
Scale5(c) == Shr(c * 527 + 23, 6)

\* ((c * 259 + 33) >> 6): a 6-bit channel widened to 8 bits.
Scale6(c) == Shr(c * 259 + 33, 6)

\* A u32 pixel (a << 24) | (r << 16) | (g << 8) | b is kept as its four bytes
\* << a, r, g, b >>, most significant first; the widened channels are all
\* below 256, so the fields of the word do not overlap.
U32Of(a, r, g, b) == << a, r, g, b >>

\* rgb565_to_rgb8888_table[i]
Rgb565Entry(i) ==
    LET r == LowBits(Shr(i, 11), 5)
        g == LowBits(Shr(i, 5), 6)
        b == LowBits(i, 5)
    IN  U32Of(255, Scale5(r), Scale6(g), Scale5(b))

\* argb1555_to_argb8888_table[i].
Argb1555Entry(i) ==
    LET a == LowBits(Shr(i, 15), 1)
        r == LowBits(Shr(i, 10), 5)
        g == LowBits(Shr(i, 5), 5)
        b == LowBits(i, 5)
    IN  U32Of(a * 255, Scale5(r), Scale5(g), Scale5(b))

\* Indexing a table: a Rust array index past the end panics.
Rgb565Lookup(v) ==
    IF v < RGB565_TABLE_LEN
    THEN [panic |-> "none", px |-> Rgb565Entry(v)]
    ELSE [panic |-> "table_index", px |-> << >>]

Argb1555Lookup(v) ==
    IF v < ARGB1555_TABLE_LEN
    THEN [panic |-> "none", px |-> Argb1555Entry(v)]
    ELSE [panic |-> "table_index", px |-> << >>]

\* u32::to_ne_bytes on a little-endian target.
ToNeBytes(px) == << px[4], px[3], px[2], px[1] >>

\* (first_byte as u16) | ((second_byte as u16) << 8)
U16Of(first_byte, second_byte) == first_byte + second_byte * 256

\* The match on the pixel format in render_frame: the four bytes to store for
\* the pixel at 0-based source_index, or the panic of an index past the end.
ConvertAt(fmt, frame_buffer, source_index) ==
    IF fmt = "ARGB8888"
    THEN IF source_index + 4 > Len(frame_buffer)
         THEN [panic |-> "source_index", bytes |-> << >>]
         ELSE [panic |-> "none",
               bytes |-> SubSeq(frame_buffer, source_index + 1, source_index + 4)]
    ELSE IF source_index + 1 >= Len(frame_buffer)
         THEN [panic |-> "source_index", bytes |-> << >>]
         ELSE LET v == U16Of(frame_buffer[source_index + 1], frame_buffer[source_index + 2])
                  got == IF fmt = "RGB565" THEN Rgb565Lookup(v) ELSE Argb1555Lookup(v)
              IN  [panic |-> got.panic,
                   bytes |-> IF got.panic = "none" THEN ToNeBytes(got.px) ELSE << >>]

\* frame[dest_index..dest_index + 4].copy_from_slice(bytes)
StoreAt(dest, dest_index, bytes) ==
    [i \in 1..Len(dest) |->
        IF i > dest_index /\ i <= dest_index + 4 THEN bytes[i - dest_index] ELSE dest[i]]

\* The "Ensure we're not going out of bounds" test of render_frame.
BlitBreak(source_index, dest_index, src_len, dest_len) ==
    source_index >= src_len \/ dest_index >= dest_len

\* The pixel loops of render_frame from (y, x) on, for one VideoData.
RECURSIVE RenderBlit(_, _, _, _, _, _)
RenderBlit(vd, fmt, bpp, dest, y, x) ==
    IF y >= video_height THEN [panic |-> "none", frame |-> dest]
    ELSE IF x >= video_width THEN RenderBlit(vd, fmt, bpp, dest, y + 1, 0)
    ELSE LET source_index == y * vd.pitch + x * bpp
             dest_index == (y * video_width + x) * 4
         IN  IF BlitBreak(source_index, dest_index, Len(vd.frame_buffer), Len(dest))
             THEN RenderBlit(vd, fmt, bpp, dest, y + 1, 0)
             ELSE LET got == ConvertAt(fmt, vd.frame_buffer, source_index)
                  IN  IF got.panic # "none" THEN [panic |-> got.panic, frame |-> dest]
                      ELSE IF dest_index + 4 > Len(dest)
                      THEN [panic |-> "dest_index", frame |-> dest]
                      ELSE RenderBlit(vd, fmt, bpp,
                                      StoreAt(dest, dest_index, got.bytes), y, x + 1)

\* video::convert_rgb565_to_xrgb8888(first_byte, second_byte), used by the
\* inline blit of main.rs: the same widening as the RGB565 table.
convert_rgb565_to_xrgb8888(first_byte, second_byte) ==
    Rgb565Entry(U16Of(first_byte, second_byte))

\* The pixel loops of the redraw handler in main.rs from (y, x) on.
RECURSIVE InlineBlit(_, _, _, _)
InlineBlit(vd, dest, y, x) ==
    LET pitch_in_pixels == vd.pitch \div 2
    IN  IF y >= video_height THEN [panic |-> "none", frame |-> dest]
        ELSE IF x >= pitch_in_pixels THEN InlineBlit(vd, dest, y + 1, 0)
        ELSE LET source_pixel_index == y * vd.pitch + x * 2
                 dest_pixel_index == y * video_width * 4 + x * 4
             IN  IF source_pixel_index + 1 >= Len(vd.frame_buffer)
                 THEN InlineBlit(vd, dest, y + 1, 0)
                 ELSE IF dest_pixel_index + 4 > Len(dest)
                 THEN [panic |-> "dest_index", frame |-> dest]
                 ELSE InlineBlit(vd,
                         StoreAt(dest, dest_pixel_index,
                                 ToNeBytes(convert_rgb565_to_xrgb8888(
                                     vd.frame_buffer[source_pixel_index + 1],
                                     vd.frame_buffer[source_pixel_index + 2]))),
                         y, x + 1)

\* Which blit a draw step runs: render_frame of video.rs, or the loops inlined
\* in the redraw handler of main.rs.
Blit(kind, vd, fmt, bpp, dest) ==
    IF kind = "render_frame" THEN RenderBlit(vd, fmt, bpp, dest, 0, 0)
    ELSE InlineBlit(vd, dest, 0, 0)

(***************************************************************************)
(* The draw step: `for video_data in video_data_receiver.try_iter()`.      *)
(* Every VideoData in the channel is received, blitted and rendered, in    *)
(* order; a failing pixels.render() ends the step with ControlFlow::Exit,  *)
(* a panic ends the thread.  failAt = k makes the k-th render fail (0: no  *)
(* render fails).  taken and presented list the ids blitted and rendered.  *)
(***************************************************************************)
RECURSIVE DrainChannel(_, _, _, _, _, _, _, _)
DrainChannel(kind, queue, fmt, bpp, dest, failAt, taken, presented) ==
    IF queue = << >>
    THEN [result |-> "Poll", panic |-> "none", frame |-> dest, rest |-> queue,
          taken |-> taken, presented |-> presented]
    ELSE LET vd == Head(queue)
             got == Blit(kind, vd, fmt, bpp, dest)
             now == Append(taken, vd.id)
         IN  IF got.panic # "none"
             THEN [result |-> "panic", panic |-> got.panic, frame |-> got.frame,
                   rest |-> Tail(queue), taken |-> now, presented |-> presented]
             ELSE IF failAt = Len(now)
             THEN [result |-> "Exit", panic |-> "none", frame |-> got.frame,
                   rest |-> Tail(queue), taken |-> now, presented |-> presented]
             ELSE DrainChannel(kind, Tail(queue), fmt, bpp, got.frame, failAt,
                               now, Append(presented, vd.id))

\* Variant: the event loop is left whenever a draw step ends.
AfterDrawLeave(result) == IF result = "panic" THEN "panic" ELSE "exit"

\* Where the main thread goes after a draw step: Poll lets the handler reach
\* window.request_redraw(), Exit ends the event loop.
AfterDraw(result) ==
    CASE result = "Poll" -> "idle"
      [] result = "Exit" -> "exit"
      [] OTHER -> "panic"

DrawStep(kind, failAt) ==
    /\ pc = "draw"
    /\ LET out == DrainChannel(kind, VIDEO_DATA_CHANNEL, pixel_format, bytes_per_pixel, frame,
                               failAt, << >>, << >>)
       IN  /\ frame' = out.frame
           /\ VIDEO_DATA_CHANNEL' = out.rest
           /\ received' = received + Len(out.taken)
           /\ lastDraw' = [kind |-> kind, result |-> out.result,
                           held |-> [i \in 1..Len(VIDEO_DATA_CHANNEL) |-> VIDEO_DATA_CHANNEL[i].id],
                           taken |-> out.taken, presented |-> out.presented]
           /\ panic' = out.panic
           /\ pc' = AfterDraw(out.result)
    /\ UNCHANGED << formatVars, published, poolVars, audioVars, locks, call, tickLog >>

\* video::render_frame(pixels, current_state, video_height, video_width)
render_frame ==
    \E failAt \in 0..Len(VIDEO_DATA_CHANNEL) : DrawStep("render_frame", failAt)

\* main.rs: the blit inlined in the RedrawRequested handler
InlineDraw ==
    \E failAt \in 0..Len(VIDEO_DATA_CHANNEL) : DrawStep("inline", failAt)

(***************************************************************************)
(* The redraw tick of main.rs and the callbacks the core makes during      *)
(* retro_run.                                                              *)
(***************************************************************************)
\* Byte values a core fills its frames with (one below 0x80, one above).
FillBytes == { 18, 156 }

\* Pitches of the frames a core sends: a row one byte short of 16-bit pixels,
\* an exact row of 16-bit pixels, a row of 16-bit pixels with padding, and an
\* exact row of 32-bit pixels.
Pitches == { video_width * 2 - 1, video_width * 2, video_width * 2 + 2, video_width * 4 }

\* Heights of the frames a core sends: none (an empty buffer) or the display's.
Heights == { 0, video_height }

\* The last n elements of s (all of s if it has fewer).
LastOf(s, n) == IF Len(s) <= n THEN s ELSE SubSeq(s, Len(s) - n + 1, Len(s))

\* Event::RedrawRequested: lock the core and enter retro_run.  The handler
\* has no other branch: every tick runs the core.
TickBegin ==
    /\ pc = "idle"
    /\ pc' = "run"
    /\ locks' = [locks EXCEPT !.core = "main"]
    /\ tickLog' = LastOf(Append(tickLog, "real"), TickWindow)
    /\ UNCHANGED << panic, formatVars, videoVars, poolVars, audioVars, call >>

\* retro_run returns; the guard of the core is dropped with the unsafe block.
RunEnd ==
    /\ pc = "run"
    /\ pc' = "setup"
    /\ locks' = [locks EXCEPT !.core = "none"]
    /\ UNCHANGED << panic, formatVars, videoVars, poolVars, audioVars, call, tickLog >>

\* libretro_set_video_refresh_callback(frame_buffer_data, width, height, pitch):
\* a null pointer returns at once; otherwise pitch * height bytes are copied
\* into a VideoData and sent.
libretro_set_video_refresh_callback(is_null, pitch, height, fill) ==
    /\ pc = "run"
    /\ IF is_null
       THEN UNCHANGED << VIDEO_DATA_CHANNEL, published >>
       ELSE /\ published < MaxPublished
            /\ LET length_of_frame_buffer == pitch * height
                   video_data ==
                       [frame_buffer |-> [i \in 1..length_of_frame_buffer |-> fill],
                        pitch |-> pitch,
                        id |-> published + 1]
               IN  VIDEO_DATA_CHANNEL' = Send(VIDEO_DATA_CHANNEL, video_data)
            /\ published' = published + 1
    /\ UNCHANGED << pc, panic, formatVars, frame, lastDraw, received, poolVars,
                    audioVars, locks, call, tickLog >>

\* The environment callback of the core declares its pixel format: the format
\* is sent on PIXEL_FORMAT_CHANNEL.
DeclareFormat(fmt) ==
    /\ pc = "run"
    /\ Len(PIXEL_FORMAT_CHANNEL) < MaxFormats
    /\ PIXEL_FORMAT_CHANNEL' = Send(PIXEL_FORMAT_CHANNEL, fmt)
    /\ UNCHANGED << pc, panic, pixel_format, bytes_per_pixel, videoVars, poolVars,
                    audioVars, locks, call, tickLog >>

\* The match of the format set-up: bytes per pixel of a format.
BppOf(fmt) == IF fmt = "ARGB8888" THEN 4 ELSE 2

\* Variant: the set-up runs on every tick.
NeedsSetupAlways(bpp) == TRUE

\* if current_state.bytes_per_pixel == 0
NeedsSetup(bpp) == bpp = 0

\* "If needed, set up pixel format": with bytes_per_pixel still 0 the loop
\* over the formats in the channel is entered, otherwise it is skipped.
FormatSetup ==
    /\ pc = "setup"
    /\ pc' = IF NeedsSetup(bytes_per_pixel) THEN "formats" ELSE "draw"
    /\ UNCHANGED << panic, formatVars, videoVars, poolVars, audioVars, locks, call,
                    tickLog >>

\* One iteration of `for pixel_format in pixel_format_receiver.try_iter()`:
\* the format received is stored with its bytes per pixel.
FormatReceive ==
    /\ pc = "formats"
    /\ PIXEL_FORMAT_CHANNEL # << >>
    /\ pixel_format' = Head(PIXEL_FORMAT_CHANNEL)
    /\ bytes_per_pixel' = BppOf(Head(PIXEL_FORMAT_CHANNEL))
    /\ PIXEL_FORMAT_CHANNEL' = Tail(PIXEL_FORMAT_CHANNEL)
    /\ UNCHANGED << pc, panic, videoVars, poolVars, audioVars, locks, call, tickLog >>

\* try_iter() finds the channel empty: the loop ends.
FormatsDone ==
    /\ pc = "formats"
    /\ PIXEL_FORMAT_CHANNEL = << >>
    /\ pc' = "draw"
    /\ UNCHANGED << panic, formatVars, videoVars, poolVars, audioVars, locks, call,
                    tickLog >>

\* WindowEvent::CloseRequested
CloseRequested ==
    /\ pc = "idle"
    /\ pc' = "exit"
    /\ UNCHANGED << panic, formatVars, videoVars, poolVars, audioVars, locks, call, tickLog >>

(***************************************************************************)
(* audio.rs: libretro_set_audio_sample_batch_callback, in three steps: the *)
(* pool and buffer are locked and the slice built; the while loop runs one *)
(* iteration at a time; the slice is appended, the buffer pushed back and  *)
(* frames returned.                                                        *)
(***************************************************************************)
\* Variant: the newest sample is dropped instead of the oldest.
PopBack(buffer) == IF buffer = << >> THEN buffer ELSE SubSeq(buffer, 1, Len(buffer) - 1)

\* VecDeque::pop_front: nothing happens on an empty deque.
PopFront(buffer) == IF buffer = << >> THEN buffer ELSE Tail(buffer)

\* The condition of the while loop: buffer.len() + audio_slice.len() > buffer.capacity()
EvictCond(buffer_len, slice_len, capacity) == buffer_len + slice_len > capacity

\* buffer.extend(audio_slice.iter().copied())
Extend(buffer, audio_slice) == buffer \o audio_slice

\* Variant: the frames the buffer holds are reported instead of the frames passed.
FramesHeld(frames, buffer_len) == buffer_len \div AUDIO_CHANNELS

\* The value returned to the core; buffer_len is buffer.len() at that point.
FramesReturned(frames, buffer_len) == frames

\* Variant: the buffer is given back at the front of the pool.
PoolPushFront(pool, buffer_arc) == << buffer_arc >> \o pool

\* Variant: the buffer is not given back.
PoolKeep(pool, buffer_arc) == pool

\* pool.push(buffer_arc)
PoolPush(pool, buffer_arc) == Append(pool, buffer_arc)

SubmitBegin(frames) ==
    /\ pc = "run"
    /\ Len(submitted) + frames * AUDIO_CHANNELS <= MaxSamples
    /\ LET fresh == Cardinality(DOMAIN bufData) + 1
           buffer_arc == IF BUFFER_POOL # << >>
                         THEN BUFFER_POOL[Len(BUFFER_POOL)]
                         ELSE fresh
       IN  /\ BUFFER_POOL' = IF BUFFER_POOL # << >>
                             THEN SubSeq(BUFFER_POOL, 1, Len(BUFFER_POOL) - 1)
                             ELSE BUFFER_POOL
           /\ bufData' = IF BUFFER_POOL # << >>
                         THEN bufData
                         ELSE [b \in DOMAIN bufData \cup { fresh } |->
                                  IF b = fresh THEN << >> ELSE bufData[b]]
           /\ sub' = [active |-> TRUE, done |-> FALSE, frames |-> frames,
                      buffer_arc |-> buffer_arc, ret |-> 0,
                      audio_slice |-> [i \in 1..(frames * AUDIO_CHANNELS) |->
                                          Len(submitted) + i]]
    /\ pc' = "evict"
    /\ locks' = [locks EXCEPT !.pool = "main", !.buffer = "main"]
    /\ UNCHANGED << panic, formatVars, videoVars, submitted, audioVars, call, tickLog >>

SubmitEvict ==
    /\ pc = "evict"
    /\ EvictCond(Len(bufData[sub.buffer_arc]), Len(sub.audio_slice), Capacity)
    /\ bufData' = [bufData EXCEPT ![sub.buffer_arc] = PopFront(@)]
    /\ UNCHANGED << pc, panic, formatVars, videoVars, BUFFER_POOL, sub, submitted,
                    audioVars, locks, call, tickLog >>

SubmitFinish ==
    /\ pc = "evict"
    /\ ~EvictCond(Len(bufData[sub.buffer_arc]), Len(sub.audio_slice), Capacity)
    /\ bufData' = [bufData EXCEPT ![sub.buffer_arc] = Extend(@, sub.audio_slice)]
    /\ BUFFER_POOL' = PoolPush(BUFFER_POOL, sub.buffer_arc)
    /\ sub' = [sub EXCEPT !.active = FALSE, !.done = TRUE,
                          !.ret = FramesReturned(sub.frames, Len(bufData'[sub.buffer_arc]))]
    /\ submitted' = submitted \o sub.audio_slice
    /\ pc' = "run"
    /\ locks' = [locks EXCEPT !.pool = "none", !.buffer = "none"]
    /\ UNCHANGED << panic, formatVars, videoVars, audioVars, call, tickLog >>

(***************************************************************************)
(* main.rs: the audio thread, and the sender side of AUDIO_DATA_CHANNEL.   *)
(***************************************************************************)
\* An AudioBuffer is forwarded to the delivery queue of the consumer thread.
\* AudioBuffers are numbered -1, -2, ...: they are objects of another type
\* than the pooled deques, which are numbered from 1.
AudioSend ==
    /\ pc = "run"
    /\ audioSent < MaxAudioSent
    /\ AUDIO_DATA_CHANNEL' = Send(AUDIO_DATA_CHANNEL, 0 - (audioSent + 1))
    /\ audioSent' = audioSent + 1
    /\ UNCHANGED << pc, panic, formatVars, videoVars, poolVars, apc, played, locks, call, tickLog >>

\* Variant: the message sent last is received first.
TryRecvNewest(queue) ==
    [msg |-> queue[Len(queue)], rest |-> SubSeq(queue, 1, Len(queue) - 1)]

\* Receiver::try_iter().next() on a channel that holds a message: the message
\* sent first, and what stays in the channel.
TryRecv(queue) == [msg |-> Head(queue), rest |-> Tail(queue)]

\* let receiver = AUDIO_DATA_CHANNEL.1.lock().unwrap();
AudioLock ==
    /\ Alive
    /\ apc = "loop"
    /\ locks.audio_rx = "none"
    /\ apc' = "drain"
    /\ locks' = [locks EXCEPT !.audio_rx = "audio"]
    /\ UNCHANGED << pc, panic, formatVars, videoVars, poolVars, AUDIO_DATA_CHANNEL,
                    audioSent, played, call, tickLog >>

\* One iteration of `for buffer_arc in receiver.try_iter()`: the buffer is
\* locked and handed to play_audio.
AudioPlay ==
    /\ Alive
    /\ apc = "drain"
    /\ AUDIO_DATA_CHANNEL # << >>
    /\ played' = Append(played, TryRecv(AUDIO_DATA_CHANNEL).msg)
    /\ AUDIO_DATA_CHANNEL' = TryRecv(AUDIO_DATA_CHANNEL).rest
    /\ UNCHANGED << pc, panic, formatVars, videoVars, poolVars, audioSent, apc,
                    locks, call, tickLog >>

\* try_iter() finds the channel empty: the guard is dropped, the loop starts over.
AudioUnlock ==
    /\ Alive
    /\ apc = "drain"
    /\ AUDIO_DATA_CHANNEL = << >>
    /\ apc' = "loop"
    /\ locks' = [locks EXCEPT !.audio_rx = "none"]
    /\ UNCHANGED << pc, panic, formatVars, videoVars, poolVars, AUDIO_DATA_CHANNEL,
                    audioSent, played, call, tickLog >>

(***************************************************************************)
(* The system.                                                             *)
(***************************************************************************)
NoCall == [op |-> "none"]

InitSystem ==
    /\ pc = "idle"
    /\ panic = "none"
    /\ pixel_format = "ARGB8888"
    /\ bytes_per_pixel = 0
    /\ PIXEL_FORMAT_CHANNEL = << >>
    /\ VIDEO_DATA_CHANNEL = << >>
    /\ frame = [i \in 1..(video_width * video_height * 4) |-> 0]
    /\ lastDraw = [kind |-> "none", result |-> "none", held |-> << >>,
                   taken |-> << >>, presented |-> << >>]
    /\ published = 0
    /\ received = 0
    /\ BUFFER_POOL = [i \in 1..POOL_SIZE |-> i]
    /\ bufData = [b \in 1..POOL_SIZE |-> << >>]
    /\ sub = [active |-> FALSE, done |-> FALSE, frames |-> 0, buffer_arc |-> 0,
              ret |-> 0, audio_slice |-> << >>]
    /\ submitted = << >>
    /\ AUDIO_DATA_CHANNEL = << >>
    /\ audioSent = 0
    /\ apc = "loop"
    /\ played = << >>
    /\ locks = [core |-> "none", pool |-> "none", buffer |-> "none", audio_rx |-> "none"]
    /\ tickLog = << >>

Init ==
    /\ InitSystem
    /\ call = NoCall

Next ==
    \/ TickBegin
    \/ \E is_null \in BOOLEAN, pitch \in Pitches, height \in Heights,
          fill \in FillBytes :
          libretro_set_video_refresh_callback(is_null, pitch, height, fill)
    \/ \E fmt \in PixelFormats : DeclareFormat(fmt)
    \/ \E frames \in 0..MaxBatchFrames : SubmitBegin(frames)
    \/ SubmitEvict
    \/ SubmitFinish
    \/ AudioSend
    \/ RunEnd
    \/ FormatSetup
    \/ FormatReceive
    \/ FormatsDone
    \/ render_frame
    \/ InlineDraw
    \/ CloseRequested
    \/ AudioLock
    \/ AudioPlay
    \/ AudioUnlock

\* The whole program.  SpecVideo, SpecRelay and SpecAudio below are the same
\* program with a core that makes only some of its callbacks.
Spec == Init /\ [][Next]_vars

\* The tick with the video and pixel-format callbacks only, the core sending
\* frames whose pitch is in `pitches`, filled with a byte of `fills`.
VideoTick(pitches, fills) ==
    \/ TickBegin
    \/ \E is_null \in BOOLEAN, pitch \in pitches, height \in Heights,
          fill \in fills :
          libretro_set_video_refresh_callback(is_null, pitch, height, fill)
    \/ \E fmt \in PixelFormats : DeclareFormat(fmt)
    \/ RunEnd
    \/ FormatSetup
    \/ FormatReceive
    \/ FormatsDone
    \/ render_frame
    \/ InlineDraw
    \/ CloseRequested

\* Frames of every pitch and fill.
NextVideo == VideoTick(Pitches, FillBytes)

SpecVideo == Init /\ [][NextVideo]_vars

\* Frames of the display's own width in 16-bit pixels and of one fill only:
\* the hand-off of frames does not depend on their shape or content.  (The
\* fill has bit 15 of every pixel set, so an ARGB1555 frame still ends the
\* draw step in a panic.)
NextRelay == VideoTick({ video_width * 2 }, { 156 })

SpecRelay == Init /\ [][NextRelay]_vars

\* The tick with the audio callbacks only, and the audio thread.
NextAudio ==
    \/ TickBegin
    \/ \E frames \in 0..MaxBatchFrames : SubmitBegin(frames)
    \/ SubmitEvict
    \/ SubmitFinish
    \/ AudioSend
    \/ RunEnd
    \/ FormatSetup
    \/ FormatsDone
    \/ InlineDraw
    \/ CloseRequested
    \/ AudioLock
    \/ AudioPlay
    \/ AudioUnlock

SpecAudio == Init /\ [][NextAudio]_vars

(***************************************************************************)
(* video.rs: is_vrr_ready.  Refresh rates and frame rates are in           *)
(* millihertz, the unit of refresh_rate_millihertz(); a rate in hertz is   *)
(* that value / 1000.0.                                                    *)
(***************************************************************************)
\* f64::MAX and f64::MIN, the starting values of the running minimum and
\* maximum (stand-ins beyond every rate of the model).
F64_MAX == 2000000000
F64_MIN == 0 - F64_MAX

\* refresh_rate.round() as i32, for a rate given in millihertz
RoundHz(mhz) == (mhz + 500) \div 1000

\* Variant: 144 Hz modes counted like any other.
CountsAsOddWith144(mhz) == mhz % 5000 # 0

\* refresh_rate % 5.0 != 0.0 && refresh_rate.round() as i32 != 144
CountsAsOdd(mhz) == mhz % 5000 # 0 /\ RoundHz(mhz) # 144

\* count_not_divisible_by_five > 1
EnoughOddModes(count) == count > 1

\* Variant: the upper end of the range is not tested.
WithinRangeFromBelow(min_refresh_rate, max_refresh_rate, original_framerate) ==
    min_refresh_rate <= original_framerate

\* min_refresh_rate <= original_framerate && original_framerate <= max_refresh_rate
WithinRange(min_refresh_rate, max_refresh_rate, original_framerate) ==
    /\ min_refresh_rate <= original_framerate
    /\ original_framerate <= max_refresh_rate

\* The loop over monitor.video_modes(), from mode i on.
RECURSIVE ScanModes(_, _, _)
ScanModes(modes, i, acc) ==
    IF i > Len(modes) THEN acc
    ELSE LET refresh_rate == modes[i]
         IN  ScanModes(modes, i + 1,
                 [min_refresh_rate |->
                      IF refresh_rate < acc.min_refresh_rate
                      THEN refresh_rate ELSE acc.min_refresh_rate,
                  max_refresh_rate |->
                      IF refresh_rate > acc.max_refresh_rate
                      THEN refresh_rate ELSE acc.max_refresh_rate,
                  count_not_divisible_by_five |->
                      IF CountsAsOdd(refresh_rate)
                      THEN acc.count_not_divisible_by_five + 1
                      ELSE acc.count_not_divisible_by_five])

is_vrr_ready(modes, original_framerate) ==
    LET got == ScanModes(modes, 1,
                   [min_refresh_rate |-> F64_MAX, max_refresh_rate |-> F64_MIN,
                    count_not_divisible_by_five |-> 0])
    IN  /\ EnoughOddModes(got.count_not_divisible_by_five)
        /\ WithinRange(got.min_refresh_rate, got.max_refresh_rate, original_framerate)

(***************************************************************************)
(* Specifications of the pure functions: the argument is drawn in the      *)
(* initial state and an action applies the function to it.                 *)
(***************************************************************************)
\* Every raw 16-bit pixel value.
PixelValues == 0..(RGB565_TABLE_LEN - 1)

InitConv ==
    /\ InitSystem
    /\ call \in [op : { "pixel" }, v : PixelValues]

\* The entry render_frame stores in rgb565_to_rgb8888_table[v].
BuildRgb565Entry ==
    /\ call.op = "pixel"
    /\ call' = [op |-> "rgb565_entry", v |-> call.v, out |-> Rgb565Entry(call.v)]
    /\ UNCHANGED << pc, panic, formatVars, videoVars, poolVars, audioVars, locks, tickLog >>

\* The entry render_frame stores in argb1555_to_argb8888_table[v].
BuildArgb1555Entry ==
    /\ call.op = "pixel"
    /\ call.v < ARGB1555_TABLE_LEN
    /\ call' = [op |-> "argb1555_entry", v |-> call.v, out |-> Argb1555Entry(call.v)]
    /\ UNCHANGED << pc, panic, formatVars, videoVars, poolVars, audioVars, locks, tickLog >>

\* The conversion of one pixel read from a frame whose two bytes hold v.
ConvertPixel(fmt) ==
    /\ call.op = "pixel"
    /\ call' = [op |-> "convert", fmt |-> fmt, v |-> call.v,
                out |-> ConvertAt(fmt, << call.v % 256, call.v \div 256 >>, 0)]
    /\ UNCHANGED << pc, panic, formatVars, videoVars, poolVars, audioVars, locks, tickLog >>

NextConv ==
    \/ BuildRgb565Entry
    \/ BuildArgb1555Entry
    \/ \E fmt \in { "RGB565", "ARGB1555" } : ConvertPixel(fmt)

SpecConv == InitConv /\ [][NextConv]_vars

\* Longest list of video modes of the monitor.
MaxModes == 2

\* Refresh rates of video modes, in millihertz.
Rates == { 48000, 59940, 60000, 143600, 144000 }

\* Frame rates of the content, in millihertz.
FrameRates == { 30000, 59940, 60000, 150000 }

SeqsUpTo(S, n) == UNION { [1..k -> S] : k \in 0..n }

ModeLists ==
    SeqsUpTo(Rates, MaxModes)
        \cup { << 48000, 60000, 75000, 90000, 120000, 144000 >> }

InitVrr ==
    /\ InitSystem
    /\ call \in [op : { "monitor" }, modes : ModeLists, fps : FrameRates]

CallVrrReady ==
    /\ call.op = "monitor"
    /\ call' = [op |-> "is_vrr_ready", modes |-> call.modes, fps |-> call.fps,
                out |-> is_vrr_ready(call.modes, call.fps)]
    /\ UNCHANGED << pc, panic, formatVars, videoVars, poolVars, audioVars, locks, tickLog >>

NextVrr == CallVrrReady

SpecVrr == InitVrr /\ [][NextVrr]_vars

(***************************************************************************)
(* main.rs: the sample rate the audio thread plays at.  main reads         *)
(* av_info.timing.sample_rate (an f64, here in millihertz) once, before    *)
(* the audio thread starts, and passes it to every play_audio, which       *)
(* builds its SamplesBuffer with it.  The refresh rate of the monitor and  *)
(* the frame rate of the content are not read.                             *)
(***************************************************************************)
\* `x as u32` for a non-negative f64 given in thousandths: the fraction is dropped.
AsU32(thousandths) == thousandths \div 1000

\* The sample_rate argument of SamplesBuffer::new in play_audio.
PlaybackRate(sample_rate) == AsU32(sample_rate)

\* av_info.timing.sample_rate of cores, in millihertz.
SampleRates == { 22050000, 32000000, 44100000, 48000000 }

\* Native refresh rates of monitors, in millihertz.
MonitorRates == { 60000, 75000, 120000, 144000 }

InitPacing ==
    /\ InitSystem
    /\ call \in [op : { "session" }, sample_rate : SampleRates,
                 monitor_hz : MonitorRates, fps : FrameRates]

\* The audio thread hands a buffer to play_audio.
PlayAtRate ==
    /\ call.op = "session"
    /\ call' = [op |-> "play_audio", sample_rate |-> call.sample_rate,
                monitor_hz |-> call.monitor_hz, fps |-> call.fps,
                channels |-> AUDIO_CHANNELS, rate |-> PlaybackRate(call.sample_rate)]
    /\ UNCHANGED << pc, panic, formatVars, videoVars, poolVars, audioVars, locks, tickLog >>

NextPacing == PlayAtRate

SpecPacing == InitPacing /\ [][NextPacing]_vars

(***************************************************************************)
(* Properties.                                                             *)
(***************************************************************************)
IsPrefix(s, t) == Len(s) <= Len(t) /\ SubSeq(t, 1, Len(s)) = s

ChannelIds == [i \in 1..Len(VIDEO_DATA_CHANNEL) |-> VIDEO_DATA_CHANNEL[i].id]

\* C1: whenever the audio batch callback has returned, the value it returned
\* is the frame count it was called with, also when samples were evicted.
C1_ReturnsFrameCount == sub.done => sub.ret = sub.frames

\* A callback with frames > 0 has returned after evicting samples.
C1_Witness == sub.done /\ sub.frames > 0 /\ Len(submitted) > Capacity

\* C2: once the callbacks that returned have passed more samples than the
\* capacity, the buffer holds exactly the last `capacity` samples passed, in
\* their order.
C2_MostRecentSamples ==
    (sub.done /\ Len(submitted) > Capacity)
        => bufData[sub.buffer_arc] =
               SubSeq(submitted, Len(submitted) - Capacity + 1, Len(submitted))

C2_Witness == sub.done /\ Len(submitted) >= Capacity + AUDIO_CHANNELS

C4_EmptyTakeDrawsNothing ==
    [][(pc = "draw" /\ VIDEO_DATA_CHANNEL = << >> /\ pc' # "draw")
          => /\ frame' = frame
             /\ lastDraw'.taken = << >>
             /\ lastDraw'.presented = << >>
             /\ lastDraw'.result = "Poll"
             /\ pc' = "idle"]_vars

\* A draw step has run on an empty relay, after an earlier one that drew a frame.
C4_Witness ==
    /\ pc = "idle"
    /\ lastDraw.result = "Poll"
    /\ lastDraw.held = << >>
    /\ received > 0

\* C5 as stated: every buffer the batch callback has filled is queued for the
\* audio thread or has been handed to play_audio.
C5_FilledIsQueued ==
    \A b \in DOMAIN bufData :
        (bufData[b] # << >> /\ ~sub.active)
            => (b \in Range(AUDIO_DATA_CHANNEL) \/ b \in Range(played))

\* C6: the buffers pooled and checked out never number more than POOL_SIZE,
\* no buffer is allocated beyond the pool's, and between callbacks the pool
\* holds exactly its POOL_SIZE buffers.
C6_PoolKeepsItsSize ==
    /\ Len(BUFFER_POOL) + (IF sub.active THEN 1 ELSE 0) <= POOL_SIZE
    /\ Cardinality(DOMAIN bufData) <= POOL_SIZE
    /\ ~sub.active
           => /\ Len(BUFFER_POOL) = POOL_SIZE
              /\ Range(BUFFER_POOL) = 1..POOL_SIZE

\* Several callbacks have returned.
C6_Witness == sub.done /\ ~sub.active /\ Len(submitted) >= MaxSamples - 1

\* n / d rounded to the nearest integer.
RoundDiv(n, d) == (2 * n + d) \div (2 * d)

\* C7: every entry of the two tables is the reference conversion of its
\* index: the 5- and 6-bit fields scaled to 0..255 with rounding, and alpha
\* 0xFF for RGB565.
C7_TablesMatchReference ==
    /\ call.op = "rgb565_entry"
           => call.out = << 255,
                            RoundDiv(((call.v \div 2048) % 32) * 255, 31),
                            RoundDiv(((call.v \div 32) % 64) * 255, 63),
                            RoundDiv((call.v % 32) * 255, 31) >>
    /\ call.op = "argb1555_entry"
           => SubSeq(call.out, 2, 4) =
                  << RoundDiv(((call.v \div 1024) % 32) * 255, 31),
                     RoundDiv(((call.v \div 32) % 32) * 255, 31),
                     RoundDiv((call.v % 32) * 255, 31) >>

\* The entry of a mid-range RGB565 value has been built.
C7_Witness ==
    call.op = "rgb565_entry" /\ call.v = 6371 /\ call.out = << 255, 25, 28, 25 >>

\* C8 as stated: every raw 16-bit ARGB1555 pixel is converted, the lookup
\* staying inside the table, with alpha 0xFF when bit 15 is set and 0x00
\* otherwise.
C8_EveryPixelConverts ==
    (call.op = "convert" /\ call.fmt = "ARGB1555")
        => /\ call.out.panic = "none"
           /\ call.out.bytes[4] = IF call.v >= 32768 THEN 255 ELSE 0

\* C9 as stated: with 2 or 4 bytes per pixel, the blit of render_frame never
\* indexes the source or the destination past its end, whatever the pitch
\* and length of the frame.
C9_BlitStaysInBounds ==
    (lastDraw.kind = "render_frame" /\ bytes_per_pixel \in { 2, 4 })
        => panic \notin { "source_index", "dest_index" }

\* C10 as stated: true exactly when the frame rate lies within the smallest
\* and largest refresh rate and more than one refresh rate of the list is not
\* a multiple of 5 Hz.
C10_AnyOddRate ==
    call.op = "is_vrr_ready"
        => (call.out <=>
               /\ \E i \in 1..Len(call.modes) : call.modes[i] <= call.fps
               /\ \E i \in 1..Len(call.modes) : call.modes[i] >= call.fps
               /\ Cardinality({ call.modes[i] : i \in
                      { j \in 1..Len(call.modes) : call.modes[j] % 5000 # 0 } }) > 1)

\* C10 amended: true exactly when the frame rate lies within the smallest and
\* largest refresh rate and more than one video mode of the list has a
\* refresh rate that is neither a multiple of 5 Hz nor rounds to 144 Hz; so
\* false for { 48, 60, 75, 90, 120, 144 } at 59.94 and false for { 60 }.
C10_OddRateNot144 ==
    call.op = "is_vrr_ready"
        => /\ call.out <=>
                  /\ \E i \in 1..Len(call.modes) : call.modes[i] <= call.fps
                  /\ \E i \in 1..Len(call.modes) : call.modes[i] >= call.fps
                  /\ Cardinality({ j \in 1..Len(call.modes) :
                         /\ call.modes[j] % 5000 # 0
                         /\ (call.modes[j] + 500) \div 1000 # 144 }) > 1
           /\ call.modes = << 48000, 60000, 75000, 90000, 120000, 144000 >>
                  => ~call.out
           /\ call.modes = << 60000 >> => ~call.out

C10_Witness ==
    /\ call.op = "is_vrr_ready"
    /\ call.modes = << 48000, 60000, 75000, 90000, 120000, 144000 >>
    /\ call.fps = 59940
    /\ ~call.out

\* C11 as stated, for any bfi_factor k > 0: a tick that runs the core (a real
\* frame) is followed by a tick that does not (a synthetic frame); two real
\* frames never follow each other.
C11_RealThenSynthetic ==
    \A i \in 1..(Len(tickLog) - 1) :
        tickLog[i] = "real" => tickLog[i + 1] = "synthetic"

\* C12 as stated, for the sample rate: on a monitor that is not VRR-capable
\* (one video mode only), audio is handed to the output at
\* content_sample_rate * (monitor_hz / content_fps), so at twice the
\* content's rate for 30 fps content on a 60 Hz monitor.  (Rates are compared
\* in hundredths of a hertz, cross-multiplied.)
C12_ScaledSampleRate ==
    (call.op = "play_audio" /\ ~is_vrr_ready(<< call.monitor_hz >>, call.fps))
        => /\ call.rate * (call.fps \div 10)
                  = (call.sample_rate \div 1000) * (call.monitor_hz \div 10)
           /\ (call.fps = 30000 /\ call.monitor_hz = 60000)
                  => call.rate = 2 * (call.sample_rate \div 1000)

\* C13 as stated: the event loop reaches its exit state by a close request
\* only, never because a draw step failed to present a frame.
C13_HaltsOnlyOnClose == pc = "exit" => lastDraw.result # "Exit"

\* C14 as stated: a publish with an empty buffer (pitch * height = 0) puts
\* nothing in the relay, so the relay never holds an empty frame.
C14_EmptyPublishIsNoOp ==
    \A i \in 1..Len(VIDEO_DATA_CHANNEL) : VIDEO_DATA_CHANNEL[i].frame_buffer # << >>

\* C15 as stated: once the pixel format has been set from a declaration
\* (bytes_per_pixel is no longer 0), no step changes pixel_format or
\* bytes_per_pixel.
C15_NeverChangesOnceSet ==
    [][bytes_per_pixel # 0
          => /\ pixel_format' = pixel_format
             /\ bytes_per_pixel' = bytes_per_pixel]_vars

\* C15 amended: pixel_format and bytes_per_pixel change only inside the loop
\* of a format set-up, and a set-up that finds the format set skips the loop
\* and reads no declaration; so once a set-up has ended with a format set,
\* the format never changes again.  (Inside the one loop that sets it, every
\* declaration queued is applied in turn and the last one stays.)
C15_SetByOneSetUp ==
    [][/\ pc # "formats"
          => /\ pixel_format' = pixel_format
             /\ bytes_per_pixel' = bytes_per_pixel
       /\ (pc = "setup" /\ bytes_per_pixel # 0 /\ pc' # pc)
          => /\ pc' = "draw"
             /\ PIXEL_FORMAT_CHANNEL' = PIXEL_FORMAT_CHANNEL]_vars

\* The format was set in an earlier tick; a later declaration was skipped by
\* the set-up of this tick and is still in the channel.
C15_Witness ==
    /\ pc = "draw"
    /\ pixel_format = "RGB565"
    /\ bytes_per_pixel = 2
    /\ PIXEL_FORMAT_CHANNEL = << "ARGB8888" >>

\* C16 as stated: whenever a draw step has converted pixels of a frame into
\* the presentation buffer, bytes_per_pixel is the size of a pixel of
\* pixel_format, also when no format was declared (ARGB8888, 4 bytes).
C16_BppMatchesFormat ==
    (lastDraw.taken # << >> /\ \E i \in 1..Len(frame) : frame[i] # 0)
        => bytes_per_pixel = BppOf(pixel_format)

\* C17: the buffers handed to play_audio, followed by those still queued, are
\* the buffers sent, in the order they were sent; and a drain pass ends only
\* when the queue is empty.
C17_PlayedInArrivalOrder ==
    /\ [](played \o AUDIO_DATA_CHANNEL = [i \in 1..audioSent |-> 0 - i])
    /\ [][(apc = "drain" /\ apc' = "loop") => AUDIO_DATA_CHANNEL = << >>]_vars

\* Two buffers were sent and played, and the drain pass has ended.
C17_Witness == Len(played) = 2 /\ apc = "loop"

\* C18 as stated: a buffer retains BUFFER_LENGTH stereo frames, that is
\* BUFFER_LENGTH * AUDIO_CHANNELS samples, before anything is evicted: as long
\* as the callbacks have passed no more than that, the buffer holds all of
\* it.  (Capacity is BUFFER_LENGTH scaled down.)
C18_RetainsBufferLengthFrames ==
    (sub.done /\ Len(submitted) <= Capacity * AUDIO_CHANNELS)
        => bufData[sub.buffer_arc] = submitted

\* C19 as stated: the eviction loop always exits.  An iteration either makes
\* room or the loop has ended, so the loop never runs on an empty buffer, where
\* pop_front changes nothing and the condition stays true for ever.
C19_EvictionLoopExits ==
    (pc = "evict" /\ EvictCond(Len(bufData[sub.buffer_arc]), Len(sub.audio_slice), Capacity))
        => bufData[sub.buffer_arc] # << >>

\* C20 as stated: when a tick has ended, by reaching window.request_redraw()
\* or by leaving the event loop, the relay is empty.
C20_RelayEmptyAfterTick ==
    pc \in { "idle", "exit" } => VIDEO_DATA_CHANNEL = << >>

\* C21 as stated: no write of the inline blit of main.rs lands past the end
\* of the presentation buffer, whatever the pitch of the frame.
C21_InlineBlitStaysInBuffer ==
    lastDraw.kind = "inline" => panic # "dest_index"

\* C22: is_vrr_ready is false whenever the frame rate is below every refresh
\* rate of the list or above every one of them, so also for the empty list.
C22_FalseOutsideRange ==
    (/\ call.op = "is_vrr_ready"
     /\ \/ \A i \in 1..Len(call.modes) : call.fps < call.modes[i]
        \/ \A i \in 1..Len(call.modes) : call.fps > call.modes[i])
        => ~call.out

\* A list with two modes that count as odd, and a frame rate above both.
C22_Witness ==
    /\ call.op = "is_vrr_ready"
    /\ call.modes = << 48000, 59940 >>
    /\ call.fps = 150000
    /\ ~call.out

\* C23: a callback with frames = 0 changes no buffer at any of its steps,
\* takes the last buffer of the pool and puts it back where it was, passes no
\* sample and returns 0.
C23_ZeroLengthNoEffect ==
    [][/\ (pc = "run" /\ pc' = "evict" /\ sub'.frames = 0)
          => /\ bufData' = bufData
             /\ BUFFER_POOL = Append(BUFFER_POOL', sub'.buffer_arc)
       /\ (pc = "evict" /\ sub.frames = 0)
          => /\ bufData' = bufData
             /\ pc' # pc
                   => /\ pc' = "run"
                      /\ BUFFER_POOL' = Append(BUFFER_POOL, sub.buffer_arc)
                      /\ submitted' = submitted
                      /\ sub'.ret = 0]_vars

\* A callback with frames = 0 has returned, the buffer it took being full.
C23_Witness ==
    /\ sub.done
    /\ sub.frames = 0
    /\ Len(bufData[sub.buffer_arc]) = Capacity

\* C24 as stated, for the locks of the batch callback: whenever the main
\* thread holds the pool lock, the callback holding it can take a step that
\* changes the state, towards the release of the lock.
C24_LockHolderProgresses ==
    locks.pool = "main" => ENABLED << SubmitEvict \/ SubmitFinish >>_vars

\* C25: between callbacks every buffer holds whole stereo frames: an even
\* number of samples, the first one the left sample of a frame passed (the
\* samples passed are numbered from 1, left samples odd).
C25_StereoAligned ==
    ~sub.active
        => \A b \in DOMAIN bufData :
               /\ Len(bufData[b]) % AUDIO_CHANNELS = 0
               /\ bufData[b] # << >> => Head(bufData[b]) % AUDIO_CHANNELS = 1

\* A callback has returned after evicting frames, leaving others in the buffer.
C25_Witness ==
    /\ sub.done
    /\ bufData[sub.buffer_arc] # << >>
    /\ Head(bufData[sub.buffer_arc]) > 1
    /\ Head(bufData[sub.buffer_arc]) < Len(submitted) - 1

====
